---- MODULE Spec2Model ----
(***************************************************************************)
(* The IKRAE optimizer pipeline (src/src/ikrae_optimizer.py):              *)
(*   apply_semantic_filter -> build_weighted_dag -> optimize_path          *)
(*   -> generate_explanation, run in this order by run_ikrae_pipeline.     *)
(*                                                                         *)
(* Numbers.  The code computes in floating point; the model computes the   *)
(* same quantities exactly, in integers:                                   *)
(*   - mastery, pedagogical weight and the weights ALPHA, BETA, GAMMA are  *)
(*     counted in tenths (0.4 is 4, 1.0 is 10);                            *)
(*   - durations and time budgets are whole minutes, penalties whole       *)
(*     points;                                                             *)
(*   - costs and edge weights are counted in millionths (the floor 1e-6    *)
(*     is 1, the cost 2.03 is 2030000).                                    *)
(* Python dictionaries are records; a key the dictionary lacks is a field  *)
(* the record lacks, and dict.get(key, default) is Get(d, key, default).   *)
(* Python's None is the string "None"; a path of None is the empty         *)
(* sequence (the code only ever tests it with "not path").                 *)
(***************************************************************************)
EXTENDS Integers, Sequences, FiniteSets, TLC

\* ------------------------------------------------------------------------
\* Configuration of the program
\* ------------------------------------------------------------------------
ALPHA == 4
BETA == 3
GAMMA == 3
REAL_TIME_THRESHOLD_MS == 200
\* float('inf'): larger than every cost the bounded inputs can produce
Infinity == 2000000000

\* ------------------------------------------------------------------------
\* Bounds of the model
\* ------------------------------------------------------------------------
\* rows of the LO table
MaxLOs == 2
\* prerequisite edges in the edge list
MaxEdges == 3
\* largest k asked for; the smallest is -1
MaxK == 2

None == "None"

\* ------------------------------------------------------------------------
\* Helpers
\* ------------------------------------------------------------------------
\* dict.get(key, default)
Get(d, key, default) == IF key \in DOMAIN d THEN d[key] ELSE default

\* Python's max(a, b) on numbers
Max(a, b) == IF a >= b THEN a ELSE b

Min(a, b) == IF a <= b THEN a ELSE b

Range(s) == {s[i] : i \in DOMAIN s}

\* s with x appended unless s already holds it (a dict keeps the first
\* insertion's place)
AppendNew(s, x) == IF x \in Range(s) THEN s ELSE Append(s, x)

\* Python's s[:k], for negative k too
PyPrefix(s, k) ==
    IF k >= 0 THEN SubSeq(s, 1, Min(k, Len(s)))
    ELSE SubSeq(s, 1, Max(Len(s) + k, 0))

\* ------------------------------------------------------------------------
\* Inputs: LO tables, prerequisite edge lists, contexts, k
\* ------------------------------------------------------------------------
LOIds == <<"q1", "q2", "q3">>

\* The attribute profiles a row of the table takes its values from.
\*   Quiz : q1 of Scenario A
\*   Video: q2 of Scenario A
\*   Free : every cost term is zero
Profiles ==
    { [duration_min |-> 5,  pedagogical_weight |-> 9,  type |-> "question",
       language |-> "en", requires_mastery |-> 0],
      [duration_min |-> 20, pedagogical_weight |-> 5,  type |-> "video",
       language |-> "en", requires_mastery |-> 8],
      [duration_min |-> 0,  pedagogical_weight |-> 10, type |-> "question",
       language |-> "en", requires_mastery |-> 0] }

Row(id, p) ==
    [lo_id |-> id, duration_min |-> p.duration_min,
     pedagogical_weight |-> p.pedagogical_weight, type |-> p.type,
     language |-> p.language, requires_mastery |-> p.requires_mastery]

\* LO tables: rows q1..qn, n <= MaxLOs, ids unique, each row with a profile
LOTables ==
    UNION { { [i \in 1..n |-> Row(LOIds[i], f[i])] : f \in [1..n -> Profiles] }
            : n \in 0..Min(MaxLOs, Len(LOIds)) }

\* The edges a prerequisite list is made of: every pair of distinct LO ids
\* (also ids the table does not hold), and the two sentinel-naming edges of
\* the command line's own edge list.
EdgeUniverse ==
    << <<"q1", "q2">>, <<"q1", "q3">>, <<"q2", "q1">>, <<"q2", "q3">>,
       <<"q3", "q1">>, <<"q3", "q2">>, <<"START", "q1">>, <<"q2", "GOAL">> >>

RECURSIVE PickEdges(_, _)
\* the edges of EdgeUniverse at the indices S, from index i on, in order
PickEdges(S, i) ==
    IF i > Len(EdgeUniverse) THEN <<>>
    ELSE IF i \in S THEN <<EdgeUniverse[i]>> \o PickEdges(S, i + 1)
    ELSE PickEdges(S, i + 1)

EdgeLists ==
    { PickEdges(S, 1) : S \in { T \in SUBSET (1..Len(EdgeUniverse)) :
                                  Cardinality(T) <= MaxEdges } }

\* Scenario A's context (it gives no device)
CtxA == [mastery_level |-> 5, bandwidth |-> "low", language |-> "en",
         time_budget_min |-> 60]
CtxMobile == [mastery_level |-> 10, bandwidth |-> "high", language |-> "en",
              time_budget_min |-> 10, device |-> "mobile"]
CtxFr == [mastery_level |-> 10, bandwidth |-> "high", language |-> "fr",
          time_budget_min |-> 60, device |-> "desktop"]
\* a context that omits every optional field but the mastery level
CtxBare == [mastery_level |-> 10]

\* <<context, use_semantic>>
Runs == { <<CtxA, TRUE>>, <<CtxMobile, TRUE>>, <<CtxFr, TRUE>>,
          <<CtxBare, TRUE>>, <<CtxA, FALSE>> }

KValues == (0 - 1)..MaxK

\* wall-clock runtimes in ms, one on each side of the threshold
RuntimeSamples == {150, 250}

\* ------------------------------------------------------------------------
\* State
\* ------------------------------------------------------------------------
VARIABLES
    lo_table,       \* the LO table read from lo_csv
    prereq_edges,   \* the prerequisite edge list
    user_context,   \* the context
    k,              \* the number of paths asked for
    use_semantic,   \* whether step 2 filters
    pc,             \* the pipeline's position
    lo_df,          \* the table after step 2
    infeasible,     \* the ids step 2 excluded
    G,              \* the graph of step 3
    paths,          \* the results of step 4
    explanation,    \* the trace the pipeline returns
    exception       \* the exception that ended the run, or None

vars == <<lo_table, prereq_edges, user_context, k, use_semantic, pc, lo_df,
          infeasible, G, paths, explanation, exception>>

inputs == <<lo_table, prereq_edges, user_context, k, use_semantic>>

EmptyGraph == [nodes |-> <<>>, attrs |-> <<>>, edges |-> <<>>,
               weight |-> <<>>, cost_breakdown |-> <<>>]

\* ------------------------------------------------------------------------
\* apply_semantic_filter
\* ------------------------------------------------------------------------
\* the three rules, in the code's order, for a row the language check of
\* which does not raise
MasteryRule(lo, ctx) ==
    Get(lo, "requires_mastery", 0) > Get(ctx, "mastery_level", 10)

DeviceRule(lo, ctx) ==
    Get(lo, "type", None) = "video" /\ Get(ctx, "bandwidth", None) = "low"

\* lo.get('language') is truthy and the row reaches the language check
ReachesLanguageCheck(lo, ctx) ==
    /\ ~MasteryRule(lo, ctx)
    /\ ~DeviceRule(lo, ctx)
    /\ Get(lo, "language", None) \notin {None, ""}

\* user_context['language'] raises KeyError
FilterRaises(table, ctx) ==
    /\ "language" \notin DOMAIN ctx
    /\ \E i \in DOMAIN table : ReachesLanguageCheck(table[i], ctx)

LanguageRule(lo, ctx) ==
    /\ ReachesLanguageCheck(lo, ctx)
    /\ lo.language # ctx.language

IsInfeasible(lo, ctx) ==
    MasteryRule(lo, ctx) \/ DeviceRule(lo, ctx) \/ LanguageRule(lo, ctx)

RECURSIVE FilteredRows(_, _)
FilteredRows(table, ctx) ==
    IF table = <<>> THEN <<>>
    ELSE IF IsInfeasible(Head(table), ctx) THEN FilteredRows(Tail(table), ctx)
    ELSE <<Head(table)>> \o FilteredRows(Tail(table), ctx)

RECURSIVE InfeasibleIds(_, _)
InfeasibleIds(table, ctx) ==
    IF table = <<>> THEN <<>>
    ELSE IF IsInfeasible(Head(table), ctx)
         THEN <<Head(table).lo_id>> \o InfeasibleIds(Tail(table), ctx)
    ELSE InfeasibleIds(Tail(table), ctx)

\* ------------------------------------------------------------------------
\* compute_context_penalty
\* ------------------------------------------------------------------------
ComputeContextPenalty(lo, ctx) ==
    (IF Get(lo, "type", None) = "video" /\ Get(ctx, "bandwidth", None) = "low"
     THEN 15 ELSE 0)
    + (IF Get(lo, "type", None) = "video" /\ Get(ctx, "device", None) = "mobile"
       THEN 8 ELSE 0)
    \* duration_min > remaining * 0.7
    + (IF 10 * Get(lo, "duration_min", 5) > 7 * Get(ctx, "time_budget_min", 60)
       THEN 20 ELSE 0)
    + (IF Get(lo, "language", None) # Get(ctx, "language", None)
       THEN 25 ELSE 0)
    + (IF Get(lo, "requires_mastery", 0) > Get(ctx, "mastery_level", 10)
       THEN 100 ELSE 0)

\* ------------------------------------------------------------------------
\* build_weighted_dag
\* ------------------------------------------------------------------------
Sentinels == {"START", "GOAL"}

RECURSIVE RowIds(_)
\* the node order after the loop over the table's rows
RowIds(df) ==
    IF df = <<>> THEN <<>> ELSE AppendNew(RowIds(SubSeq(df, 1, Len(df) - 1)), df[Len(df)].lo_id)

\* G.add_node(lo_id, **row.to_dict()): a later row of the same id overwrites
RowAttrs(df) ==
    [n \in Range(RowIds(df)) |->
        df[CHOOSE i \in DOMAIN df :
              /\ df[i].lo_id = n
              /\ \A j \in DOMAIN df : df[j].lo_id = n => j <= i]]

RECURSIVE AddEdgeNodes(_, _)
\* G.add_edge(src, dst) adds src, then dst, when the graph lacks them
AddEdgeNodes(nodes, edges) ==
    IF edges = <<>> THEN nodes
    ELSE AddEdgeNodes(AppendNew(AppendNew(nodes, Head(edges)[1]), Head(edges)[2]),
                      Tail(edges))

RECURSIVE AddEdges(_, _)
\* the edge order after adding `more` to `edges`; an edge already there stays
AddEdges(edges, more) ==
    IF more = <<>> THEN edges
    ELSE AddEdges(AppendNew(edges, Head(more)), Tail(more))

InDegree(edges, n) == Cardinality({e \in Range(edges) : e[2] = n})

OutDegree(edges, n) == Cardinality({e \in Range(edges) : e[1] = n})

EntryLos(nodes, edges) ==
    SelectSeq(nodes, LAMBDA n : InDegree(edges, n) = 0 /\ n \notin Sentinels)

ExitLos(nodes, edges) ==
    SelectSeq(nodes, LAMBDA n : OutDegree(edges, n) = 0 /\ n \notin Sentinels)

\* G.nodes[v]: the attributes of v, {} for a node an edge added
NodeAttrs(attrs, v) == IF v \in DOMAIN attrs THEN attrs[v] ELSE <<>>

\* total_cost of the edge into lo_v, in millionths
TotalCost(lo_v, ctx) ==
    10000 * ( ALPHA * Get(lo_v, "duration_min", 5) * 10
            + BETA * (10 - Get(lo_v, "pedagogical_weight", 5))
            + GAMMA * ComputeContextPenalty(lo_v, ctx) * 10 )

\* the weight the last loop assigns to the edge e
EdgeWeight(attrs, e, ctx) ==
    IF e[1] = "START" \/ e[2] = "GOAL" THEN 0
    ELSE Max(TotalCost(NodeAttrs(attrs, e[2]), ctx), 1)

CostBreakdown(attrs, e, ctx) ==
    [duration |-> Get(NodeAttrs(attrs, e[2]), "duration_min", 5),
     difficulty |-> 10 - Get(NodeAttrs(attrs, e[2]), "pedagogical_weight", 5),
     penalty |-> ComputeContextPenalty(NodeAttrs(attrs, e[2]), ctx),
     total |-> TotalCost(NodeAttrs(attrs, e[2]), ctx)]

BuildWeightedDag(df, edgeList, ctx) ==
    LET attrs  == RowAttrs(df)
        nodes1 == AddEdgeNodes(RowIds(df), edgeList)
        edges1 == AddEdges(<<>>, edgeList)
        entry  == EntryLos(nodes1, edges1)
        exit   == ExitLos(nodes1, edges1)
        nodes2 == AppendNew(AppendNew(nodes1, "START"), "GOAL")
        edges2 == AddEdges(
                    AddEdges(edges1, [i \in DOMAIN entry |-> <<"START", entry[i]>>]),
                    [i \in DOMAIN exit |-> <<exit[i], "GOAL">>])
    IN  [nodes |-> nodes2,
         attrs |-> attrs,
         edges |-> edges2,
         weight |-> [e \in Range(edges2) |-> EdgeWeight(attrs, e, ctx)],
         cost_breakdown |->
             [e \in {x \in Range(edges2) : x[1] # "START" /\ x[2] # "GOAL"} |->
                 CostBreakdown(attrs, e, ctx)]]

\* ------------------------------------------------------------------------
\* optimize_path
\* ------------------------------------------------------------------------
\* the successors of v, in the order their edges were added
RECURSIVE Successors(_, _)
Successors(edges, v) ==
    IF edges = <<>> THEN <<>>
    ELSE IF Head(edges)[1] = v
         THEN <<Head(edges)[2]>> \o Successors(Tail(edges), v)
    ELSE Successors(Tail(edges), v)

\* Dijkstra's algorithm as networkx runs it: `dist` holds the final
\* distances, `seen` the best distance found so far, `fringe` the heap of
\* <<distance, insertion count, node>>, `paths` the path to each seen node.
RECURSIVE Relax(_, _, _, _)
\* the loop over the successors `succ` of the node v just finalised
Relax(graph, st, v, succ) ==
    IF succ = <<>> THEN st
    ELSE LET u == Head(succ)
             vu_dist == st.dist[v] + graph.weight[<<v, u>>]
         IN  IF u \notin DOMAIN st.dist
                /\ (u \notin DOMAIN st.seen \/ vu_dist < st.seen[u])
             THEN Relax(graph,
                        [dist |-> st.dist,
                         seen |-> [n \in DOMAIN st.seen \cup {u} |->
                                      IF n = u THEN vu_dist ELSE st.seen[n]],
                         paths |-> [n \in DOMAIN st.paths \cup {u} |->
                                      IF n = u THEN Append(st.paths[v], u)
                                      ELSE st.paths[n]],
                         fringe |-> st.fringe \cup {<<vu_dist, st.count, u>>},
                         count |-> st.count + 1],
                        v, Tail(succ))
             ELSE Relax(graph, st, v, Tail(succ))

\* the heap's top: the least distance, the earliest pushed among equals
HeapTop(fringe) ==
    CHOOSE e \in fringe :
        \A f \in fringe : e[1] < f[1] \/ (e[1] = f[1] /\ e[2] <= f[2])

RECURSIVE DijkstraLoop(_, _, _)
DijkstraLoop(graph, st, target) ==
    IF st.fringe = {} THEN st
    ELSE LET top == HeapTop(st.fringe)
             v == top[3]
             popped == [st EXCEPT !.fringe = st.fringe \ {top}]
         IN  IF v \in DOMAIN st.dist THEN DijkstraLoop(graph, popped, target)
             ELSE LET fixed == [popped EXCEPT !.dist =
                                   [n \in DOMAIN st.dist \cup {v} |->
                                       IF n = v THEN top[1] ELSE st.dist[n]]]
                  IN  IF v = target THEN fixed
                      ELSE DijkstraLoop(graph,
                               Relax(graph, fixed, v, Successors(graph.edges, v)),
                               target)

\* the search with the weight attribute left out: every edge counts 1
DijkstraUnweighted(graph, source, target) ==
    DijkstraLoop([graph EXCEPT !.weight = [e \in DOMAIN graph.weight |-> 1]],
                 [dist |-> <<>>,
                  seen |-> [n \in {source} |-> 0],
                  paths |-> [n \in {source} |-> <<source>>],
                  fringe |-> {<<0, 0, source>>},
                  count |-> 1],
                 target)

Dijkstra(graph, source, target) ==
    DijkstraLoop(graph,
                 [dist |-> <<>>,
                  seen |-> [n \in {source} |-> 0],
                  paths |-> [n \in {source} |-> <<source>>],
                  fringe |-> {<<0, 0, source>>},
                  count |-> 1],
                 target)

\* sum(G[path[j]][path[j+1]]['weight'] for j in range(len(path)-1))
RECURSIVE PathCost(_, _)
PathCost(graph, path) ==
    IF Len(path) < 2 THEN 0
    ELSE graph.weight[<<path[1], path[2]>>] + PathCost(graph, Tail(path))

\* Every simple path that extends `path` to target, depth first in the
\* successors' order.
RECURSIVE SimplePathsFrom(_, _, _)
RECURSIVE SimplePathsVia(_, _, _, _)
SimplePathsFrom(graph, path, target) ==
    IF path[Len(path)] = target THEN <<path>>
    ELSE SimplePathsVia(graph, path, target,
                        Successors(graph.edges, path[Len(path)]))

SimplePathsVia(graph, path, target, succ) ==
    IF succ = <<>> THEN <<>>
    ELSE (IF Head(succ) \in Range(path) THEN <<>>
          ELSE SimplePathsFrom(graph, Append(path, Head(succ)), target))
         \o SimplePathsVia(graph, path, target, Tail(succ))

RECURSIVE InsertByCost(_, _, _)
\* `sorted` with path p put after the paths that cost no more than p
InsertByCost(graph, sorted, p) ==
    IF sorted = <<>> THEN <<p>>
    ELSE IF PathCost(graph, Head(sorted)) <= PathCost(graph, p)
         THEN <<Head(sorted)>> \o InsertByCost(graph, Tail(sorted), p)
    ELSE <<p>> \o sorted

\* the simple paths as found, not ordered by cost
KeepOrder(graph, ps) == ps

RECURSIVE SortByCost(_, _)
SortByCost(graph, ps) ==
    IF ps = <<>> THEN <<>>
    ELSE InsertByCost(graph, SortByCost(graph, SubSeq(ps, 1, Len(ps) - 1)),
                      ps[Len(ps)])

\* list(nx.shortest_simple_paths(G, source, target, weight='weight')): every
\* simple path from source to target, the cheapest first.  The empty
\* sequence stands for NetworkXNoPath.
ShortestSimplePaths(graph, source, target) ==
    SortByCost(graph, SimplePathsFrom(graph, <<source>>, target))

\* the no-path result without its error indicator
NoPathResultBare == << [path |-> <<>>, cost |-> Infinity] >>

NoPathResult ==
    << [path |-> <<>>, cost |-> Infinity, error |-> "No feasible path"] >>

OptimizePath(graph, kk) ==
    IF kk = 1
    THEN LET d == Dijkstra(graph, "START", "GOAL")
         IN  IF "GOAL" \notin DOMAIN d.dist THEN NoPathResult
             ELSE << [path |-> d.paths["GOAL"], cost |-> d.dist["GOAL"],
                      rank |-> 1] >>
    ELSE LET all == ShortestSimplePaths(graph, "START", "GOAL")
             ps == PyPrefix(all, kk)
         IN  IF all = <<>> THEN NoPathResult
             ELSE [i \in DOMAIN ps |->
                      [path |-> ps[i], cost |-> PathCost(graph, ps[i]),
                       rank |-> i]]

\* ------------------------------------------------------------------------
\* generate_explanation
\* ------------------------------------------------------------------------
\* the reason recorded for the excluded LO lo; the code's mastery reason
\* also quotes the mastery needed
ExclusionReason(graph, lo, ctx) ==
    LET lo_data == NodeAttrs(graph.attrs, lo)
    IN  IF Get(lo_data, "requires_mastery", 0) > Get(ctx, "mastery_level", 10)
        THEN "mastery too low"
        ELSE IF Get(lo_data, "type", None) = "video"
                /\ Get(ctx, "bandwidth", None) = "low"
        THEN "low bandwidth + video"
        ELSE "unknown"

GenerateExplanation(graph, path_result, ctx, infeasible_los) ==
    LET path == path_result.path
    IN  IF path = <<>>
        THEN [error |-> "No path found",
              infeasible_count |-> Len(infeasible_los)]
        ELSE [user_context |-> ctx,
              optimal_path |-> path,
              total_cost |-> path_result.cost,
              cost_breakdown |->
                  [i \in 1..(Len(path) - 1) |->
                      [from |-> path[i], to |-> path[i + 1],
                       details |-> Get(graph.cost_breakdown,
                                       <<path[i], path[i + 1]>>, <<>>)]],
              excluded_los |->
                  [i \in DOMAIN infeasible_los |->
                      [lo |-> infeasible_los[i],
                       reason |-> ExclusionReason(graph, infeasible_los[i], ctx)]],
              included_reasons |-> <<>>,
              k_alternatives |-> <<>>]

\* steps 6 and 7 of run_ikrae_pipeline: the alternatives and the runtime
FinishTrace(trace, results, runtime_ms) ==
    [key \in DOMAIN trace \cup {"k_alternatives", "runtime_ms",
                                "real_time_compliant"} |->
        IF key = "k_alternatives"
        THEN [i \in 1..(Len(results) - 1) |->
                 [rank |-> results[i + 1].rank, cost |-> results[i + 1].cost,
                  path |-> results[i + 1].path]]
        ELSE IF key = "runtime_ms" THEN runtime_ms
        ELSE IF key = "real_time_compliant"
        THEN runtime_ms < REAL_TIME_THRESHOLD_MS
        ELSE trace[key]]

\* ------------------------------------------------------------------------
\* The pipeline
\* ------------------------------------------------------------------------
Init ==
    /\ lo_table \in LOTables
    /\ prereq_edges \in EdgeLists
    /\ \E r \in Runs : user_context = r[1] /\ use_semantic = r[2]
    /\ k \in KValues
    /\ pc = "loaded"
    /\ lo_df = lo_table
    /\ infeasible = <<>>
    /\ G = EmptyGraph
    /\ paths = <<>>
    /\ explanation = <<>>
    /\ exception = None

\* step 2 of run_ikrae_pipeline
SemanticFilter ==
    /\ pc = "loaded"
    /\ IF ~use_semantic
       THEN /\ pc' = "filtered"
            /\ infeasible' = <<>>
            /\ UNCHANGED <<lo_df, exception>>
       ELSE IF FilterRaises(lo_table, user_context)
       THEN /\ pc' = "crashed"
            /\ exception' = "KeyError"
            /\ UNCHANGED <<lo_df, infeasible>>
       ELSE /\ pc' = "filtered"
            /\ lo_df' = FilteredRows(lo_table, user_context)
            /\ infeasible' = InfeasibleIds(lo_table, user_context)
            /\ UNCHANGED exception
    /\ UNCHANGED <<inputs, G, paths, explanation>>

\* step 3 of run_ikrae_pipeline
BuildGraph ==
    /\ pc = "filtered"
    /\ G' = BuildWeightedDag(lo_df, prereq_edges, user_context)
    /\ pc' = "built"
    /\ UNCHANGED <<inputs, lo_df, infeasible, paths, explanation, exception>>

\* step 4 of run_ikrae_pipeline; primary = paths[0] raises IndexError on an
\* empty list
Optimize ==
    /\ pc = "built"
    /\ paths' = OptimizePath(G, k)
    /\ IF paths' = <<>>
       THEN pc' = "crashed" /\ exception' = "IndexError"
       ELSE pc' = "optimized" /\ UNCHANGED exception
    /\ UNCHANGED <<inputs, lo_df, infeasible, G, explanation>>

\* steps 5 to 7 of run_ikrae_pipeline
Explain ==
    /\ pc = "optimized"
    /\ \E runtime_ms \in RuntimeSamples :
          explanation' =
              FinishTrace(GenerateExplanation(G, paths[1], user_context,
                                              infeasible),
                          paths, runtime_ms)
    /\ pc' = "done"
    /\ UNCHANGED <<inputs, lo_df, infeasible, G, paths, exception>>

Next == SemanticFilter \/ BuildGraph \/ Optimize \/ Explain

Spec == Init /\ [][Next]_vars

\* ------------------------------------------------------------------------
\* Definitions the properties are stated with
\* ------------------------------------------------------------------------
\* the graph of step 3 exists
GraphBuilt == pc \in {"built", "optimized", "done"} \/ exception = "IndexError"

\* step 4 has run (and perhaps raised on paths[0])
Searched == pc \in {"optimized", "done"} \/ exception = "IndexError"

\* the ids of the rows filtering kept
FeasibleIds == {lo_df[i].lo_id : i \in DOMAIN lo_df}

\* the rows of the table that need more mastery than the context has
MasteryDeficit ==
    {i \in DOMAIN lo_table :
        lo_table[i].requires_mastery > Get(user_context, "mastery_level", 10)}

\* the paths of the returned trace: the primary path and the alternatives
ReturnedPaths ==
    (IF "optimal_path" \in DOMAIN explanation
     THEN {explanation.optimal_path} ELSE {})
    \cup {explanation.k_alternatives[i].path :
             i \in DOMAIN Get(explanation, "k_alternatives", <<>>)}

RECURSIVE Reach(_, _)
\* the nodes reachable from the set S along the edges
Reach(edges, S) ==
    LET S2 == S \cup {e[2] : e \in {x \in Range(edges) : x[1] \in S}}
    IN  IF S2 = S THEN S ELSE Reach(edges, S2)

GoalReachable == "GOAL" \in Reach(G.edges, {"START"})

RECURSIVE SimplePathSet(_, _, _)
\* the set of simple paths that extend `path` to target
SimplePathSet(edges, path, target) ==
    IF path[Len(path)] = target THEN {path}
    ELSE UNION { SimplePathSet(edges, Append(path, e[2]), target) :
                 e \in {x \in Range(edges) :
                          x[1] = path[Len(path)] /\ x[2] \notin Range(path)} }

StartGoalPaths == SimplePathSet(G.edges, <<"START">>, "GOAL")

RECURSIVE WeightSum(_, _)
\* the sum of the weights of the edges of path p
WeightSum(weight, p) ==
    IF Len(p) < 2 THEN 0
    ELSE weight[<<p[1], p[2]>>] + WeightSum(weight, Tail(p))

IsStartGoalPath(p) ==
    /\ Len(p) >= 2
    /\ p[1] = "START"
    /\ p[Len(p)] = "GOAL"
    /\ \A i \in 1..(Len(p) - 1) : <<p[i], p[i + 1]>> \in Range(G.edges)

\* ------------------------------------------------------------------------
\* C1 (as claimed): in a run with filtering enabled, an LO whose
\* requires_mastery is greater than the context's mastery_level appears
\* neither in the primary path nor in a path of k_alternatives.
\* The code refutes it: a prerequisite edge that names the excluded LO puts
\* it back into the graph.
\* ------------------------------------------------------------------------
C1_ExcludedNeverOnPath ==
    (pc = "done" /\ use_semantic) =>
        \A i \in MasteryDeficit :
            \A p \in ReturnedPaths : lo_table[i].lo_id \notin Range(p)

\* ------------------------------------------------------------------------
\* C2 (as claimed): in a run with filtering enabled, every LO whose
\* requires_mastery is greater than the context's mastery_level has a
\* record in the trace's excluded_los, with a mastery-related reason.
\* The code refutes it: the reason is looked up in the graph, which holds no
\* attributes of an excluded LO, and the trace of a run without a path has
\* no excluded_los at all.
\* ------------------------------------------------------------------------
C2_MasteryExclusionRecorded ==
    (pc = "done" /\ use_semantic) =>
        \A i \in MasteryDeficit :
            /\ "excluded_los" \in DOMAIN explanation
            /\ \E j \in DOMAIN explanation.excluded_los :
                  /\ explanation.excluded_los[j].lo = lo_table[i].lo_id
                  /\ explanation.excluded_los[j].reason = "mastery too low"

\* ------------------------------------------------------------------------
\* C3 (as claimed): the node set of the built graph is exactly the feasible
\* LO ids plus START and GOAL, and every edge between two non-sentinel
\* nodes is a prerequisite edge between two feasible LOs.
\* The code refutes it: add_edge adds the endpoints it does not find.
\* ------------------------------------------------------------------------
C3_GraphOverFeasibleSet ==
    GraphBuilt =>
        /\ Range(G.nodes) = FeasibleIds \cup Sentinels
        /\ \A e \in Range(G.edges) :
              (e[1] \notin Sentinels /\ e[2] \notin Sentinels) =>
                  /\ e \in Range(prereq_edges)
                  /\ e[1] \in FeasibleIds
                  /\ e[2] \in FeasibleIds

\* ------------------------------------------------------------------------
\* C4 (as claimed): Scenario A.  With q1 (5 min, weight 0.9, question, en,
\* mastery 0) and q2 (20 min, 0.5, video, en, mastery 0.8), the edge
\* q1->q2, the context (mastery 0.5, low bandwidth, en, 60 min) and k = 1,
\* the primary path is [START, q1, GOAL] and its cost 2.03.
\* The code returns [START, q1, q2, GOAL] with cost 9.65.
\* ------------------------------------------------------------------------
ScenarioA ==
    /\ lo_table =
          << [lo_id |-> "q1", duration_min |-> 5, pedagogical_weight |-> 9,
              type |-> "question", language |-> "en", requires_mastery |-> 0],
             [lo_id |-> "q2", duration_min |-> 20, pedagogical_weight |-> 5,
              type |-> "video", language |-> "en", requires_mastery |-> 8] >>
    /\ prereq_edges = << <<"q1", "q2">> >>
    /\ user_context = CtxA
    /\ use_semantic
    /\ k = 1

C4_ScenarioA ==
    (ScenarioA /\ pc = "done") =>
        /\ "optimal_path" \in DOMAIN explanation
        /\ explanation.optimal_path = <<"START", "q1", "GOAL">>
        /\ explanation.total_cost = 2030000

\* ------------------------------------------------------------------------
\* C5 (as claimed): every prerequisite edge the built graph retains has a
\* weight greater than 0, also when every cost term is zero and also when
\* the edge list itself names START or GOAL as an endpoint.
\* The code refutes the last part: the edge (START, q1) of the edge list is
\* kept, with weight 0.
\* ------------------------------------------------------------------------
C5_RetainedEdgesPositive ==
    GraphBuilt =>
        \A e \in Range(G.edges) :
            e \in Range(prereq_edges) => G.weight[e] > 0

\* ------------------------------------------------------------------------
\* C6: for k = 1 and a graph in which GOAL is reachable from START,
\* optimize_path returns exactly one result; its path runs from START to
\* GOAL along edges of the graph, its cost is the sum of the weights of
\* those edges, and no START-to-GOAL path has a smaller total weight
\* (weights are not negative, so the simple paths decide the minimum).
\* ------------------------------------------------------------------------
C6_SingleShortestPath ==
    (Searched /\ k = 1 /\ GoalReachable) =>
        /\ Len(paths) = 1
        /\ IsStartGoalPath(paths[1].path)
        /\ paths[1].rank = 1
        /\ paths[1].cost = WeightSum(G.weight, paths[1].path)
        /\ \A p \in StartGoalPaths : WeightSum(G.weight, p) >= paths[1].cost

\* k = 1, feasible LOs, the cheapest path costs something and a dearer path
\* exists
C6_Witness ==
    /\ pc = "optimized"
    /\ k = 1
    /\ lo_df # <<>>
    /\ GoalReachable
    /\ paths[1].cost > 0
    /\ \E p \in StartGoalPaths : WeightSum(G.weight, p) > paths[1].cost

\* ------------------------------------------------------------------------
\* C7 (as claimed): for every k <= 1, k = 0 and negative k included, and a
\* graph in which GOAL is reachable, the search returns a list of exactly
\* one result, the minimum-weight START-to-GOAL path, and the pipeline
\* completes with that path as its primary path.
\* The code refutes it: only k = 1 takes the single-path branch; k = 0
\* returns an empty list and paths[0] raises IndexError.
\* ------------------------------------------------------------------------
C7_AtMostOneMeansShortest ==
    (Searched /\ k <= 1 /\ GoalReachable) =>
        /\ pc # "crashed"
        /\ Len(paths) = 1
        /\ IsStartGoalPath(paths[1].path)
        /\ paths[1].cost = WeightSum(G.weight, paths[1].path)
        /\ \A p \in StartGoalPaths : WeightSum(G.weight, p) >= paths[1].cost
        /\ pc = "done" =>
              /\ "optimal_path" \in DOMAIN explanation
              /\ explanation.optimal_path = paths[1].path

\* ------------------------------------------------------------------------
\* C8: for k > 1 and a graph in which GOAL is reachable, optimize_path
\* returns min(k, number of simple START-to-GOAL paths) results, all
\* different; each is a START-to-GOAL path without a repeated node and
\* carries the sum of its weights as cost; result i has rank i; the costs
\* do not decrease; no simple path left out is cheaper than one returned.
\* ------------------------------------------------------------------------
C8_KShortestSimplePaths ==
    (Searched /\ k > 1 /\ GoalReachable) =>
        /\ Len(paths) = Min(k, Cardinality(StartGoalPaths))
        /\ \A i \in DOMAIN paths :
              /\ IsStartGoalPath(paths[i].path)
              /\ Cardinality(Range(paths[i].path)) = Len(paths[i].path)
              /\ paths[i].cost = WeightSum(G.weight, paths[i].path)
              /\ paths[i].rank = i
        /\ \A i, j \in DOMAIN paths :
              i < j => /\ paths[i].cost <= paths[j].cost
                       /\ paths[i].path # paths[j].path
        /\ \A q \in StartGoalPaths \ {paths[i].path : i \in DOMAIN paths} :
              \A i \in DOMAIN paths : WeightSum(G.weight, q) >= paths[i].cost

\* feasible LOs, more simple paths than k, and the two returned first differ
\* in cost
C8_Witness ==
    /\ pc = "optimized"
    /\ k > 1
    /\ lo_df # <<>>
    /\ Cardinality(StartGoalPaths) > k
    /\ Len(paths) = k
    /\ paths[1].cost < paths[2].cost

\* ------------------------------------------------------------------------
\* C9: when GOAL is not reachable from START, optimize_path raises nothing
\* and returns, whatever k is, a list of exactly one result whose cost is
\* +infinity and whose error indicator is populated.
\* ------------------------------------------------------------------------
C9_NoPathResult ==
    (Searched /\ ~GoalReachable) =>
        /\ pc # "crashed"
        /\ Len(paths) = 1
        /\ paths[1].cost = Infinity
        /\ "error" \in DOMAIN paths[1]
        /\ paths[1].error # ""

\* no path although LOs are feasible (the edges form a cycle), k > 1
C9_Witness ==
    /\ pc = "optimized"
    /\ lo_df # <<>>
    /\ ~GoalReachable
    /\ k > 1
    /\ Len(G.nodes) > 2
    /\ paths[1].cost = Infinity

\* ------------------------------------------------------------------------
\* C10 (as claimed): Scenario B.  When filtering leaves an empty feasible
\* set and so no path, the pipeline does not crash and the trace reports
\* cost = +infinity and a populated error indicator, and still carries
\* excluded_los, runtime_ms and real_time_compliant.  Stated here for
\* k >= 1, where the search itself returns the no-path result.
\* The code refutes it: the trace of a run without a path holds the error
\* and the number of excluded LOs, but neither a cost nor excluded_los.
\* ------------------------------------------------------------------------
EmptyFeasibleSet ==
    /\ use_semantic
    /\ pc \in {"filtered", "built", "optimized", "done"}
    /\ lo_df = <<>>
    /\ infeasible # <<>>

C10_ScenarioB ==
    (EmptyFeasibleSet /\ k >= 1 /\ pc = "done" /\ ~GoalReachable) =>
        /\ \E key \in {"cost", "total_cost"} :
              /\ key \in DOMAIN explanation
              /\ explanation[key] = Infinity
        /\ "error" \in DOMAIN explanation
        /\ "excluded_los" \in DOMAIN explanation
        /\ "runtime_ms" \in DOMAIN explanation
        /\ "real_time_compliant" \in DOMAIN explanation

\* ------------------------------------------------------------------------
\* C12 (as claimed): in every built graph START has an edge to v exactly
\* when v is a feasible LO with no incoming prerequisite edge from another
\* feasible LO, and v has an edge to GOAL exactly when v is a feasible LO
\* with no outgoing prerequisite edge to another feasible LO; so a feasible
\* LO whose only predecessors were excluded is an entry point.
\* The code refutes it: the edge from an excluded LO is still added, so the
\* feasible LO has an incoming edge and START is tied to the excluded LO.
\* ------------------------------------------------------------------------
FeasiblePredecessors(v) ==
    {e[1] : e \in {x \in Range(prereq_edges) :
                      x[2] = v /\ x[1] # v /\ x[1] \in FeasibleIds}}

FeasibleSuccessors(v) ==
    {e[2] : e \in {x \in Range(prereq_edges) :
                      x[1] = v /\ x[2] # v /\ x[2] \in FeasibleIds}}

C12_EntryExitPoints ==
    GraphBuilt =>
        \A v \in Range(G.nodes) \cup FeasibleIds :
            /\ <<"START", v>> \in Range(G.edges)
                  <=> (v \in FeasibleIds /\ FeasiblePredecessors(v) = {})
            /\ <<v, "GOAL">> \in Range(G.edges)
                  <=> (v \in FeasibleIds /\ FeasibleSuccessors(v) = {})

\* ------------------------------------------------------------------------
\* C13 (as claimed): the filter keeps an LO exactly when none of five hard
\* rules matches it: mastery deficit, language mismatch, video on low
\* bandwidth, long video (over 15 minutes) on mobile, and duration_min
\* greater than the context's time_budget_min.
\* The code refutes it: it has the first three rules only, so a 20-minute
\* video is kept on mobile with a budget of 10 minutes.
\* ------------------------------------------------------------------------
Filtered == use_semantic /\ pc \in {"filtered", "built", "optimized", "done"}

MatchesHardRule(lo, ctx) ==
    \/ lo.requires_mastery > Get(ctx, "mastery_level", 10)
    \/ lo.language # Get(ctx, "language", "en")
    \/ lo.type = "video" /\ Get(ctx, "bandwidth", "high") = "low"
    \/ lo.type = "video" /\ Get(ctx, "device", "desktop") = "mobile"
          /\ lo.duration_min > 15
    \/ lo.duration_min > Get(ctx, "time_budget_min", 60)

C13_FiveHardRules ==
    Filtered =>
        \A i \in DOMAIN lo_table :
            lo_table[i].lo_id \in FeasibleIds
                <=> ~MatchesHardRule(lo_table[i], user_context)

\* ------------------------------------------------------------------------
\* C14 (as claimed): the penalty of an LO is the sum of exactly these
\* terms: +15 for video on low bandwidth, +10 for a long video (over 15
\* minutes) on mobile, +20 for a language mismatch, +10 for duration_min
\* greater than 0.7 x time_budget_min; nothing else contributes and a short
\* video on mobile adds nothing.  Stated of the penalty the graph records
\* for every edge into a feasible LO.
\* The code refutes it: its terms are 15, 8 for any video on mobile, 20 for
\* the budget, 25 for the language and 100 more for a mastery deficit.
\* ------------------------------------------------------------------------
ClaimedPenalty(lo, ctx) ==
    (IF lo.type = "video" /\ Get(ctx, "bandwidth", "high") = "low"
     THEN 15 ELSE 0)
    + (IF lo.type = "video" /\ Get(ctx, "device", "desktop") = "mobile"
          /\ lo.duration_min > 15
       THEN 10 ELSE 0)
    + (IF lo.language # Get(ctx, "language", "en") THEN 20 ELSE 0)
    + (IF 10 * lo.duration_min > 7 * Get(ctx, "time_budget_min", 60)
       THEN 10 ELSE 0)

C14_PenaltyTerms ==
    GraphBuilt =>
        \A e \in DOMAIN G.cost_breakdown :
            \A i \in DOMAIN lo_df :
                lo_df[i].lo_id = e[2] =>
                    G.cost_breakdown[e].penalty
                        = ClaimedPenalty(lo_df[i], user_context)

\* ------------------------------------------------------------------------
\* C15 (as claimed): when the context omits an optional field, the pipeline
\* does not fail and filters and penalises exactly as if the field held its
\* default (language en, bandwidth high, device desktop, mastery_level 1.0,
\* time_budget_min 60); a context without language neither raises nor counts
\* an en LO as a language mismatch.
\* The code refutes it: the filter reads user_context['language'] and
\* raises KeyError when the context has no language.
\* ------------------------------------------------------------------------
WithDefaults(ctx) ==
    [language |-> Get(ctx, "language", "en"),
     bandwidth |-> Get(ctx, "bandwidth", "high"),
     device |-> Get(ctx, "device", "desktop"),
     mastery_level |-> Get(ctx, "mastery_level", 10),
     time_budget_min |-> Get(ctx, "time_budget_min", 60)]

C15_MissingFieldsDefault ==
    /\ exception # "KeyError"
    /\ Filtered =>
          /\ lo_df = FilteredRows(lo_table, WithDefaults(user_context))
          /\ infeasible = InfeasibleIds(lo_table, WithDefaults(user_context))
    /\ GraphBuilt =>
          \A e \in DOMAIN G.cost_breakdown :
              \A i \in DOMAIN lo_df :
                  lo_df[i].lo_id = e[2] =>
                      G.cost_breakdown[e].penalty
                          = ComputeContextPenalty(lo_df[i],
                                                  WithDefaults(user_context))

\* ------------------------------------------------------------------------
\* C16 (as claimed): in every completed run, whether or not a path was
\* found, the trace's excluded_los holds exactly one record per LO the
\* filter excluded, in the filter's order, and no other record.
\* The code refutes it: the trace of a run without a path has no
\* excluded_los.
\* ------------------------------------------------------------------------
C16_ExcludedPassedThrough ==
    pc = "done" =>
        /\ "excluded_los" \in DOMAIN explanation
        /\ [i \in DOMAIN explanation.excluded_los |->
               explanation.excluded_los[i].lo] = infeasible

\* ------------------------------------------------------------------------
\* C17 (as claimed): in every built graph, two edges u1->v and u2->v into
\* the same non-sentinel node v carry the same weight and the same cost
\* breakdown, also when one of the predecessors is START.
\* The code refutes the last part: with the prerequisite edges (START, q1)
\* and (q2, q1), the first gets weight 0 and no breakdown, the second the
\* cost of q1.
\* ------------------------------------------------------------------------
C17_WeightOfDestinationOnly ==
    GraphBuilt =>
        \A e1, e2 \in Range(G.edges) :
            (e1[2] = e2[2] /\ e1[2] \notin Sentinels) =>
                /\ G.weight[e1] = G.weight[e2]
                /\ Get(G.cost_breakdown, e1, <<>>)
                      = Get(G.cost_breakdown, e2, <<>>)

\* ------------------------------------------------------------------------
\* C18 (as claimed): for every edge between two LOs the total of its cost
\* breakdown is alpha*duration + beta*difficulty + gamma*penalty floored to
\* the positive epsilon, hence equal to the edge's weight; so the breakdown
\* totals listed for the primary path add up to its reported total cost.
\* The code refutes it: the breakdown stores the total before the floor, so
\* an edge into an LO whose terms are all zero has total 0 and weight 1e-6.
\* ------------------------------------------------------------------------
RECURSIVE SumOfTotals(_)
\* the sum of the totals of the trace's breakdown entries that have one
SumOfTotals(entries) ==
    IF entries = <<>> THEN 0
    ELSE Get(Head(entries).details, "total", 0) + SumOfTotals(Tail(entries))

C18_BreakdownTotalIsWeight ==
    /\ GraphBuilt =>
          \A e \in Range(G.edges) :
              (e[1] \notin Sentinels /\ e[2] \notin Sentinels) =>
                  /\ e \in DOMAIN G.cost_breakdown
                  /\ G.cost_breakdown[e].total > 0
                  /\ G.cost_breakdown[e].total = G.weight[e]
    /\ (pc = "done" /\ "optimal_path" \in DOMAIN explanation) =>
          SumOfTotals(explanation.cost_breakdown) = explanation.total_cost

\* ------------------------------------------------------------------------
\* C19 (as claimed): if the prerequisite edges are acyclic and the built
\* graph has at least one non-sentinel node, GOAL is reachable from START
\* and optimize_path returns a real path for every k >= 1; the result
\* 'No feasible path' occurs only when the graph has no non-sentinel node
\* or the edges contain a cycle.
\* Checked over edge lists that name the sentinels at either end of an
\* edge.  The code refutes it there: the one edge (GOAL, q1) is acyclic,
\* takes q1's place among the entry points away, and leaves START without
\* an edge.
\* ------------------------------------------------------------------------
SentinelEdgeUniverse ==
    << <<"q1", "q2">>, <<"q2", "q1">>, <<"START", "q1">>, <<"q2", "GOAL">>,
       <<"GOAL", "q1">>, <<"q2", "START">>, <<"START", "GOAL">> >>

RECURSIVE PickSentinelEdges(_, _)
PickSentinelEdges(S, i) ==
    IF i > Len(SentinelEdgeUniverse) THEN <<>>
    ELSE IF i \in S
         THEN <<SentinelEdgeUniverse[i]>> \o PickSentinelEdges(S, i + 1)
    ELSE PickSentinelEdges(S, i + 1)

SentinelEdgeLists ==
    { PickSentinelEdges(S, 1) :
        S \in { T \in SUBSET (1..Len(SentinelEdgeUniverse)) :
                  Cardinality(T) <= MaxEdges } }

InitSentinelEdges ==
    /\ lo_table \in LOTables
    /\ prereq_edges \in SentinelEdgeLists
    /\ \E r \in Runs : user_context = r[1] /\ use_semantic = r[2]
    /\ k \in KValues
    /\ pc = "loaded"
    /\ lo_df = lo_table
    /\ infeasible = <<>>
    /\ G = EmptyGraph
    /\ paths = <<>>
    /\ explanation = <<>>
    /\ exception = None

SpecSentinelEdges == InitSentinelEdges /\ [][Next]_vars

\* no edge of the list lies on a cycle of the list
Acyclic(edges) ==
    \A e \in Range(edges) : e[1] \notin Reach(edges, {e[2]})

HasLoNode == \E n \in Range(G.nodes) : n \notin Sentinels

C19_AcyclicMeansPath ==
    Searched =>
        /\ (Acyclic(prereq_edges) /\ HasLoNode /\ k >= 1) =>
              /\ GoalReachable
              /\ paths # <<>>
              /\ paths[1].path # <<>>
              /\ "error" \notin DOMAIN paths[1]
        /\ (paths # <<>> /\ "error" \in DOMAIN paths[1]) =>
              (~HasLoNode \/ ~Acyclic(prereq_edges))

\* ------------------------------------------------------------------------
\* C20 (as claimed): every edge leaving START and every edge entering GOAL
\* has weight 0, so the cost of a returned path is the cost of its LOs but
\* the first, a path [START, x, GOAL] costs 0, and whenever the graph holds
\* an LO that no prerequisite edge names, the primary path is a cost-0 path
\* through a single LO, whatever that LO's own cost.
\* The code refutes the last part over edge lists that name the sentinels:
\* with the edge (START, GOAL) the primary path is [START, GOAL], through
\* no LO at all.
\* ------------------------------------------------------------------------
\* the LO nodes of the graph that no prerequisite edge names
IsolatedLos ==
    {n \in Range(G.nodes) \ Sentinels :
        \A e \in Range(prereq_edges) : e[1] # n /\ e[2] # n}

\* the cost in the context of entering the LO n
CostOfLo(n) == Max(TotalCost(NodeAttrs(G.attrs, n), user_context), 1)

RECURSIVE CostOfLos(_)
\* the summed cost of the LOs of the sequence los
CostOfLos(los) ==
    IF los = <<>> THEN 0 ELSE CostOfLo(Head(los)) + CostOfLos(Tail(los))

C20_FirstLoCostsNothing ==
    /\ GraphBuilt =>
          \A e \in Range(G.edges) :
              (e[1] = "START" \/ e[2] = "GOAL") => G.weight[e] = 0
    /\ pc \in {"optimized", "done"} =>
          /\ \A i \in DOMAIN paths :
                Len(paths[i].path) >= 3 =>
                    /\ paths[i].cost
                          = CostOfLos(SubSeq(paths[i].path, 3,
                                             Len(paths[i].path) - 1))
                    /\ Len(paths[i].path) = 3 => paths[i].cost = 0
          /\ IsolatedLos # {} =>
                /\ Len(paths[1].path) = 3
                /\ paths[1].path[2] \notin Sentinels
                /\ paths[1].cost = 0
====
